---- MODULE Spec2Model ----
(***************************************************************************)
(* EIP-7980: Ed25519 transaction signature verification.                   *)
(*                                                                         *)
(* The program is the function Verify(signatureInfo, payloadHash) and its  *)
(* helper deriveAddress, once in the main program and once more as a copy  *)
(* in the test package.  A call is modelled step by step (length check,    *)
(* split, ed25519.Verify, deriveAddress, return) so that the order of the  *)
(* steps and the interleaving of several calls are visible; the same code  *)
(* is also given as the operators Verify and test_Verify, the result of a  *)
(* call that runs alone.                                                   *)
(*                                                                         *)
(* Byte sequences keep the program's sizes (96, 64, 32 and 20 bytes).      *)
(* crypto/ed25519 and sha3 are libraries: Ed25519 is modelled as an ideal  *)
(* deterministic signature scheme (a signature verifies exactly when it is *)
(* the one Sign produces for that key and message), Keccak256 as a fixed   *)
(* function from bytes to 32 bytes.                                        *)
(***************************************************************************)
EXTENDS Integers, Sequences, FiniteSets, TLC

\* ------------------------------------------------------------ bounds

\* Number of Ed25519 keypairs the callers hold.
NumKeys == 2
\* Number of distinct 32-byte payload digests.
NumDigests == 2
\* Number of calls of Verify that may run at the same time (goroutines).
NumCalls == 2

Keys == 1..NumKeys
Digests == 1..NumDigests
Calls == 1..NumCalls

\* ------------------------------------------------------------ constants

ALG_TYPE == 0
GAS_PENALTY == 1000
MAX_SIZE == 96

test_ALG_TYPE == 0
test_GAS_PENALTY == 1000
test_MAX_SIZE == 96

\* Sizes fixed by crypto/ed25519 and by the types of the program.
SignatureSize == 64
PublicKeySize == 32
PayloadHashSize == 32
KeccakSize == 32
AddressSize == 20

Zeros(n) == [i \in 1..n |-> 0]

\* ExecutionAddress{}: the zero value of the [20]byte address.
ZeroAddress == Zeros(AddressSize)

\* A nil error.
nil == <<>>

\* ------------------------------------------------------------ libraries

RECURSIVE WeightedSum(_, _, _)
WeightedSum(bytes, w, j) ==
    IF j > Len(bytes) THEN 0
    ELSE bytes[j] * (w + j) + WeightedSum(bytes, w, j + 1)

\* sha3.NewLegacyKeccak256 / Write / Sum(nil): a fixed function of the bytes
\* written, 32 bytes long.
Keccak256(bytes) ==
    LET plain == WeightedSum(bytes, 1, 1)
        weighted == WeightedSum(bytes, 2, 1)
    IN  [i \in 1..KeccakSize |->
            (plain + i * (weighted - plain) + 99 * i + Len(bytes)) % 256]

\* ed25519.GenerateKey: the 32-byte public key of keypair k.
PublicKeyOf(k) == [i \in 1..PublicKeySize |-> (k * 37 + i * 5) % 256]

\* ed25519.Sign(privateKey, message): deterministic, 64 bytes (R ++ S), one
\* signature per key and message.
Sign(k, message) ==
    [i \in 1..SignatureSize |->
        IF i <= 32
        THEN (message[((i - 1) % Len(message)) + 1] * 3 + k * 53 + i * 7) % 256
        ELSE (message[((i - 33) % Len(message)) + 1] + k * 17 + i) % 256]

\* The public key bytes decode to a key.
ValidPublicKey(pk) == \E k \in Keys : PublicKeyOf(k) = pk

\* ed25519.Verify(publicKey, message, sig) for a 32-byte publicKey: true
\* exactly when publicKey decodes and sig is the signature of message under
\* it (RFC 8032 section 5.1.7).  The library panics on a publicKey that is
\* not 32 bytes long (Ed25519Panics).
ed25519_Verify(pk, message, sig) ==
    \E k \in Keys : PublicKeyOf(k) = pk /\ Len(message) > 0 /\ sig = Sign(k, message)

Ed25519Panics(pk) == Len(pk) # PublicKeySize

\* ------------------------------------------------------------ the code

\* s[lo:hi] of Go (0-based, hi exclusive).  The slice expression panics when
\* hi exceeds the capacity; the callers' slices are made with cap = len.
Slice(s, lo, hi) == SubSeq(s, lo + 1, hi)

SliceInRange(s, lo, hi) == 0 <= lo /\ lo <= hi /\ hi <= Len(s)

\* len(signatureInfo) != MAX_SIZE, negated.
LengthOK_atMost(s) == Len(s) <= MAX_SIZE

LengthOK_atLeast(s) == Len(s) >= MAX_SIZE

LengthOK_always(s) == TRUE

LengthOK(s) == Len(s) = MAX_SIZE

test_LengthOK(s) == Len(s) = test_MAX_SIZE

\* signature := signatureInfo[:64]
SplitSignature(s) == Slice(s, 0, 64)

\* publicKey := signatureInfo[64:96]
SplitPublicKey_first32(s) == Slice(s, 0, 32)

SplitPublicKey(s) == Slice(s, 64, 96)

\* The condition of "if !ed25519.Verify(...)" for the value v it returned.
VerificationFailed_inverted(v) == v

VerificationFailed(v) == ~v

\* fmt.Errorf("invalid signature info length: expected %d, got %d", ...):
\* the format and its arguments.
LengthError(s) ==
    <<"invalid signature info length: expected %d, got %d", MAX_SIZE, Len(s)>>

\* errors.New("ed25519 signature verification failed")
SignatureError == <<"ed25519 signature verification failed">>

\* The test package's two error values.
ErrInvalidLength == <<"invalid signature length">>
ErrInvalidSignature == <<"signature verification failed">>

\* fullHash[len(fullHash)-20:] of keccak256(publicKey).
deriveAddress_first20(pk) ==
    LET fullHash == Keccak256(pk) IN Slice(fullHash, 0, AddressSize)

deriveAddress(pk) ==
    LET fullHash == Keccak256(pk)
    IN  Slice(fullHash, Len(fullHash) - AddressSize, Len(fullHash))

test_deriveAddress(pk) ==
    LET fullHash == Keccak256(pk)
    IN  Slice(fullHash, Len(fullHash) - AddressSize, Len(fullHash))

\* Verify of the main program, run alone: the pair it returns.
Verify(s, h) ==
    IF ~LengthOK(s)
    THEN [address |-> ZeroAddress, err |-> LengthError(s)]
    ELSE LET sig == SplitSignature(s)
             pk == SplitPublicKey(s)
         IN  IF VerificationFailed(ed25519_Verify(pk, h, sig))
             THEN [address |-> ZeroAddress, err |-> SignatureError]
             ELSE [address |-> deriveAddress(pk), err |-> nil]

\* Verify of the test package, run alone.
test_Verify(s, h) ==
    IF ~test_LengthOK(s)
    THEN [address |-> ZeroAddress, err |-> ErrInvalidLength]
    ELSE LET sig == SplitSignature(s)
             pk == SplitPublicKey(s)
         IN  IF VerificationFailed(ed25519_Verify(pk, h, sig))
             THEN [address |-> ZeroAddress, err |-> ErrInvalidSignature]
             ELSE [address |-> test_deriveAddress(pk), err |-> nil]

\* ------------------------------------------------------------ the callers

\* A 32-byte payload digest ([32]byte).
Digest(d) == [i \in 1..PayloadHashSize |-> (d * 16 + i) % 256]

Tampers == {"none", "zeroSig", "flipSig", "badKey", "otherKey"}

Lengths == {0, 50, 64, 95, 96, 97}

\* The 64 signature bytes a caller puts into the blob.
SignatureBytes(k, d, t) ==
    LET sig == Sign(k, Digest(d))
    IN  CASE t = "zeroSig" -> Zeros(SignatureSize)
          [] t = "flipSig" -> [sig EXCEPT ![1] = (sig[1] + 1) % 256]
          [] OTHER -> sig

\* The 32 public key bytes a caller puts into the blob.
PublicKeyBytes(k, t) ==
    CASE t = "badKey" -> [i \in 1..PublicKeySize |-> 255]
      [] t = "otherKey" -> PublicKeyOf((k % NumKeys) + 1)
      [] OTHER -> PublicKeyOf(k)

\* make([]byte, n) with the signature copied to [:64] and the public key to
\* [64:], cut or zero-padded to n bytes.
Blob(k, d, t, n) ==
    LET full == SignatureBytes(k, d, t) \o PublicKeyBytes(k, t)
    IN  IF n <= Len(full) THEN SubSeq(full, 1, n)
        ELSE full \o Zeros(n - Len(full))

Impls == {"main", "test"}

\* What one caller hands to Verify: which Verify, the blob, the digest.
Inputs ==
    { [impl |-> m, signatureInfo |-> Blob(k, d, t, n), payloadHash |-> Digest(e)] :
        m \in Impls, k \in Keys, d \in Digests, t \in Tampers, n \in Lengths,
        e \in Digests }

\* The inputs of the calls that run concurrently: valid blobs of the first
\* and the last key over two digests, and blobs of the first key with a zero
\* signature, with 50 bytes only, and signed over another digest than the
\* one supplied.
ConcInputs ==
    { [impl |-> "main", signatureInfo |-> Blob(k, d, "none", MAX_SIZE),
       payloadHash |-> Digest(d)] : k \in {1, NumKeys}, d \in {1, 2} }
    \cup { [impl |-> "main", signatureInfo |-> Blob(1, 1, "zeroSig", MAX_SIZE),
            payloadHash |-> Digest(1)],
           [impl |-> "main", signatureInfo |-> Blob(1, 1, "none", 50),
            payloadHash |-> Digest(1)],
           [impl |-> "main", signatureInfo |-> Blob(1, 1, "none", MAX_SIZE),
            payloadHash |-> Digest(2)] }

\* ------------------------------------------------------------ state

VARIABLES
    pc,             \* position of each call: idle, check, split, verify, derive, done, panic
    impl,           \* which Verify the call runs: main or test
    signatureInfo,  \* argument signatureInfo of each call
    payloadHash,    \* argument payloadHash of each call
    signature,      \* local signature := signatureInfo[:64]
    publicKey,      \* local publicKey := signatureInfo[64:96]
    ok,             \* what ed25519.Verify returned to the call
    steps,          \* the library and helper calls the call has made, in order
    address,        \* returned ExecutionAddress
    err             \* returned error

vars == <<pc, impl, signatureInfo, payloadHash, signature, publicKey, ok, steps,
          address, err>>

Init ==
    /\ pc = [c \in Calls |-> "idle"]
    /\ impl = [c \in Calls |-> "main"]
    /\ signatureInfo = [c \in Calls |-> <<>>]
    /\ payloadHash = [c \in Calls |-> Zeros(PayloadHashSize)]
    /\ signature = [c \in Calls |-> <<>>]
    /\ publicKey = [c \in Calls |-> <<>>]
    /\ ok = [c \in Calls |-> FALSE]
    /\ steps = [c \in Calls |-> <<>>]
    /\ address = [c \in Calls |-> ZeroAddress]
    /\ err = [c \in Calls |-> nil]

\* The caller of slot c calls Verify(in.signatureInfo, in.payloadHash).
Enter(c, in) ==
    /\ pc[c] \in {"idle", "done"}
    /\ pc' = [pc EXCEPT ![c] = "check"]
    /\ impl' = [impl EXCEPT ![c] = in.impl]
    /\ signatureInfo' = [signatureInfo EXCEPT ![c] = in.signatureInfo]
    /\ payloadHash' = [payloadHash EXCEPT ![c] = in.payloadHash]
    /\ signature' = [signature EXCEPT ![c] = <<>>]
    /\ publicKey' = [publicKey EXCEPT ![c] = <<>>]
    /\ ok' = [ok EXCEPT ![c] = FALSE]
    /\ steps' = [steps EXCEPT ![c] = <<>>]
    /\ address' = [address EXCEPT ![c] = ZeroAddress]
    /\ err' = [err EXCEPT ![c] = nil]

Call(c) == \E in \in Inputs : Enter(c, in)

CallConcurrently(c) == \E in \in ConcInputs : Enter(c, in)

\* if len(signatureInfo) != MAX_SIZE { return ExecutionAddress{}, <length error> }
CheckLength(c) ==
    /\ pc[c] = "check"
    /\ LET pass == IF impl[c] = "main" THEN LengthOK(signatureInfo[c])
                   ELSE test_LengthOK(signatureInfo[c])
       IN  /\ pc' = [pc EXCEPT ![c] = IF pass THEN "split" ELSE "done"]
           /\ err' = [err EXCEPT ![c] =
                         IF pass THEN nil
                         ELSE IF impl[c] = "main" THEN LengthError(signatureInfo[c])
                         ELSE ErrInvalidLength]
           /\ address' = [address EXCEPT ![c] = ZeroAddress]
    /\ UNCHANGED <<impl, signatureInfo, payloadHash, signature, publicKey, ok, steps>>

\* The buffer the two slice expressions of call c read.
SplitSource_shared(c) == signatureInfo[1]

SplitSource(c) == signatureInfo[c]

\* signature := signatureInfo[:64]; publicKey := signatureInfo[64:96]
Split(c) ==
    /\ pc[c] = "split"
    /\ LET src == SplitSource(c)
           inRange == SliceInRange(src, 0, 64) /\ SliceInRange(src, 64, 96)
       IN  /\ pc' = [pc EXCEPT ![c] = IF inRange THEN "verify" ELSE "panic"]
           /\ signature' = [signature EXCEPT ![c] =
                               IF inRange THEN SplitSignature(src) ELSE <<>>]
           /\ publicKey' = [publicKey EXCEPT ![c] =
                               IF inRange THEN SplitPublicKey(src) ELSE <<>>]
    /\ UNCHANGED <<impl, signatureInfo, payloadHash, ok, steps, address, err>>

\* The message call c hands to ed25519.Verify: payloadHash[:].
VerifyMessage_shared(c) == payloadHash[1]

VerifyMessage(c) == payloadHash[c]

\* The error call c returns when ed25519.Verify returns false.
SignatureFailure_detailed(c) ==
    IF ValidPublicKey(publicKey[c]) THEN <<"bad signature">> ELSE <<"bad public key">>

SignatureFailure(c) ==
    IF impl[c] = "main" THEN SignatureError ELSE ErrInvalidSignature

\* if !ed25519.Verify(publicKey, payloadHash[:], signature) { return ExecutionAddress{}, <error> }
VerifySignature(c) ==
    /\ pc[c] = "verify"
    /\ LET panics == Ed25519Panics(publicKey[c])
           valid == ~panics /\ ed25519_Verify(publicKey[c], VerifyMessage(c), signature[c])
           failed == VerificationFailed(valid)
       IN  /\ ok' = [ok EXCEPT ![c] = valid]
           /\ pc' = [pc EXCEPT ![c] =
                        IF panics THEN "panic" ELSE IF failed THEN "done" ELSE "derive"]
           /\ err' = [err EXCEPT ![c] =
                         IF ~panics /\ failed THEN SignatureFailure(c) ELSE nil]
    /\ steps' = [steps EXCEPT ![c] = Append(@, "ed25519.Verify")]
    /\ UNCHANGED <<impl, signatureInfo, payloadHash, signature, publicKey, address>>

\* The bytes call c hands to deriveAddress: publicKey.
DeriveInput_signature(c) == Slice(signature[c], 0, 32)

DeriveInput(c) == publicKey[c]

\* address := deriveAddress(publicKey); return address, nil
DeriveAddress(c) ==
    /\ pc[c] = "derive"
    /\ address' = [address EXCEPT ![c] =
                      IF impl[c] = "main" THEN deriveAddress(DeriveInput(c))
                      ELSE test_deriveAddress(DeriveInput(c))]
    /\ err' = [err EXCEPT ![c] = nil]
    /\ steps' = [steps EXCEPT ![c] = Append(@, "deriveAddress")]
    /\ pc' = [pc EXCEPT ![c] = "done"]
    /\ UNCHANGED <<impl, signatureInfo, payloadHash, signature, publicKey, ok>>

\* One caller: a call runs from its entry to its return before the next.
Next ==
    \/ Call(1)
    \/ CheckLength(1)
    \/ Split(1)
    \/ VerifySignature(1)
    \/ DeriveAddress(1)

Spec == Init /\ [][Next]_vars

\* NumCalls callers, their calls interleaved step by step.
NextConc ==
    \E c \in Calls :
        \/ CallConcurrently(c)
        \/ CheckLength(c)
        \/ Split(c)
        \/ VerifySignature(c)
        \/ DeriveAddress(c)

SpecConc == Init /\ [][NextConc]_vars

\* ------------------------------------------------------------ properties

\* The kind of a returned error: a length failure, a signature failure, none.
KindOf(e) ==
    IF e = nil THEN "nil"
    ELSE IF e = <<"invalid signature length">>
            \/ (Len(e) = 3 /\ e[1] = "invalid signature info length: expected %d, got %d")
         THEN "InvalidLength"
    ELSE IF e \in { <<"ed25519 signature verification failed">>,
                    <<"signature verification failed">> }
         THEN "InvalidSignature"
    ELSE "other"

Made(c, step) == \E i \in 1..Len(steps[c]) : steps[c][i] = step

\* signature_info[0:64] and signature_info[64:96] of a call's argument, and
\* last20(Keccak256(pk)), written out with the byte positions.
SigPart(c) == SubSeq(signatureInfo[c], 1, 64)
KeyPart(c) == SubSeq(signatureInfo[c], 65, 96)
Last20OfKeccak(pk) == SubSeq(Keccak256(pk), 13, 32)

\* C1: a call whose signature_info is not 96 bytes long never gets past the
\* length check: it makes no call of ed25519.Verify or deriveAddress, and it
\* returns the zero address with an InvalidLength error, whatever the bytes.
C1_InvalidLengthBeforeCrypto ==
    \A c \in Calls :
        (pc[c] # "idle" /\ Len(signatureInfo[c]) # 96) =>
            /\ pc[c] \in {"check", "done"}
            /\ steps[c] = <<>>
            /\ signature[c] = <<>> /\ publicKey[c] = <<>>
            /\ pc[c] = "done" =>
                  KindOf(err[c]) = "InvalidLength" /\ address[c] = ZeroAddress

C1_Witness ==
    \E c \in Calls :
        /\ pc[c] = "done" /\ impl[c] = "main"
        /\ Len(signatureInfo[c]) = 95
        /\ KindOf(err[c]) = "InvalidLength"
        /\ steps[c] = <<>>

\* C2: Verify(sign(sk, h) ++ pk, h) returns a nil error and the 20-byte
\* address last20(Keccak256(pk)), for every keypair and every digest.
C2_ValidSignatureAccepted ==
    \A c \in Calls : \A k \in Keys : \A d \in Digests :
        ( /\ pc[c] = "done"
          /\ signatureInfo[c] = Sign(k, Digest(d)) \o PublicKeyOf(k)
          /\ payloadHash[c] = Digest(d) ) =>
            /\ err[c] = nil
            /\ Len(address[c]) = 20
            /\ address[c] = Last20OfKeccak(PublicKeyOf(k))

C2_Witness ==
    \E c \in Calls : \E k \in Keys : \E d \in Digests :
        /\ pc[c] = "done" /\ impl[c] = "main"
        /\ signatureInfo[c] = Sign(k, Digest(d)) \o PublicKeyOf(k)
        /\ payloadHash[c] = Digest(d)
        /\ err[c] = nil
        /\ address[c] = Last20OfKeccak(PublicKeyOf(k))

\* C3: deriveAddress runs, and a nil error is returned, only after
\* ed25519.Verify has returned true for signature_info[0:64] under the key
\* signature_info[64:96] over the supplied payload_hash.
C3_AddressOnlyAfterVerification ==
    \A c \in Calls :
        (pc[c] = "derive" \/ Made(c, "deriveAddress")
            \/ (pc[c] = "done" /\ err[c] = nil)) =>
            /\ Len(steps[c]) >= 1 /\ steps[c][1] = "ed25519.Verify"
            /\ ok[c]
            /\ Len(signatureInfo[c]) = 96
            /\ ed25519_Verify(KeyPart(c), payloadHash[c], SigPart(c))

C3_Witness ==
    \E c \in Calls :
        /\ pc[c] = "done" /\ err[c] = nil /\ impl[c] = "main"
        /\ steps[c] = <<"ed25519.Verify", "deriveAddress">>
        /\ ed25519_Verify(KeyPart(c), payloadHash[c], SigPart(c))

\* C4: a 96-byte signature_info that does not verify (bad signature bytes,
\* bad key bytes, another key, another digest) makes Verify return the one
\* InvalidSignature error value, the same whatever the cause.
C4_OneSignatureFailure ==
    \A c \in Calls :
        ( /\ pc[c] = "done"
          /\ Len(signatureInfo[c]) = 96
          /\ ~ed25519_Verify(KeyPart(c), payloadHash[c], SigPart(c)) ) =>
            /\ KindOf(err[c]) = "InvalidSignature"
            /\ err[c] = IF impl[c] = "main"
                        THEN <<"ed25519 signature verification failed">>
                        ELSE <<"signature verification failed">>
            /\ address[c] = ZeroAddress

\* A signature made over one digest, checked against another.
C4_Witness ==
    \E c \in Calls : \E k \in Keys : \E d \in Digests :
        /\ pc[c] = "done" /\ impl[c] = "main"
        /\ signatureInfo[c] = Sign(k, Digest(d)) \o PublicKeyOf(k)
        /\ payloadHash[c] \in {Digest(e) : e \in Digests \ {d}}
        /\ KindOf(err[c]) = "InvalidSignature"

\* C5: no call panics, and a call that has returned has returned either a
\* nil error with the address derived after a successful verification, or
\* an error of exactly one of the kinds InvalidLength and InvalidSignature;
\* a failure is never a nil error with a zero or underived address.
C5_TwoTerminalOutcomes ==
    \A c \in Calls :
        /\ pc[c] # "panic"
        /\ pc[c] = "done" =>
              \/ /\ err[c] = nil
                 /\ ok[c] /\ Made(c, "deriveAddress")
                 /\ address[c] = Last20OfKeccak(KeyPart(c))
              \/ /\ KindOf(err[c]) \in {"InvalidLength", "InvalidSignature"}
                 /\ ~ok[c] /\ ~Made(c, "deriveAddress")
                 /\ (KindOf(err[c]) = "InvalidLength") = (Len(signatureInfo[c]) # 96)

C5_Witness ==
    \E c \in Calls :
        /\ pc[c] = "done" /\ impl[c] = "main"
        /\ signatureInfo[c] = <<>>
        /\ KindOf(err[c]) = "InvalidLength"

\* C6: two calls of the same Verify with the same signature_info and the
\* same payload_hash have returned the same address and the same error,
\* whatever ran before or between them.
C6_Deterministic ==
    \A c1 \in Calls : \A c2 \in Calls :
        ( /\ pc[c1] = "done" /\ pc[c2] = "done"
          /\ impl[c1] = impl[c2]
          /\ signatureInfo[c1] = signatureInfo[c2]
          /\ payloadHash[c1] = payloadHash[c2] ) =>
            address[c1] = address[c2] /\ err[c1] = err[c2]

C6_Witness ==
    \E c1 \in Calls : \E c2 \in Calls :
        /\ c1 # c2
        /\ pc[c1] = "done" /\ pc[c2] = "done"
        /\ signatureInfo[c1] = signatureInfo[c2]
        /\ payloadHash[c1] = payloadHash[c2]
        /\ err[c1] = nil /\ err[c2] = nil
        /\ address[c1] = address[c2]

\* C7: the address of a successful call is last20(Keccak256(
\* signature_info[64:96])), so two successful calls whose signature_info
\* agree on bytes 64..95 return the same address.
C7_AddressFromPublicKeyOnly ==
    /\ \A c \in Calls :
          (pc[c] = "done" /\ err[c] = nil) =>
              address[c] = Last20OfKeccak(KeyPart(c))
    /\ \A c1 \in Calls : \A c2 \in Calls :
          ( /\ pc[c1] = "done" /\ err[c1] = nil
            /\ pc[c2] = "done" /\ err[c2] = nil
            /\ KeyPart(c1) = KeyPart(c2) ) =>
              address[c1] = address[c2]

C7_Witness ==
    \E c1 \in Calls : \E c2 \in Calls :
        /\ pc[c1] = "done" /\ err[c1] = nil
        /\ pc[c2] = "done" /\ err[c2] = nil
        /\ KeyPart(c1) = KeyPart(c2)
        /\ SigPart(c1) # SigPart(c2)
        /\ payloadHash[c1] # payloadHash[c2]
        /\ address[c1] = address[c2]

\* What a call returns when it runs alone.
Alone(c) ==
    IF impl[c] = "main" THEN Verify(signatureInfo[c], payloadHash[c])
    ELSE test_Verify(signatureInfo[c], payloadHash[c])

\* A step leaves the arguments of every call in progress as they were.
InputsKept ==
    \A c \in Calls :
        pc[c] \notin {"idle", "done"} =>
            signatureInfo'[c] = signatureInfo[c] /\ payloadHash'[c] = payloadHash[c]

\* A step changes the position, locals and results of one call at most.
OneCallPerStep ==
    \E c \in Calls : \A o \in Calls \ {c} :
        /\ pc'[o] = pc[o] /\ impl'[o] = impl[o]
        /\ signatureInfo'[o] = signatureInfo[o] /\ payloadHash'[o] = payloadHash[o]
        /\ signature'[o] = signature[o] /\ publicKey'[o] = publicKey[o]
        /\ ok'[o] = ok[o] /\ steps'[o] = steps[o]
        /\ address'[o] = address[o] /\ err'[o] = err[o]

\* C8: with calls interleaved, every call returns what it returns when run
\* alone, its locals are those of its own arguments, and no step writes to
\* the arguments of a call in progress or to anything of another call.
C8_ConcurrentAsAlone ==
    /\ [](\A c \in Calls :
            /\ pc[c] = "done" =>
                  [address |-> address[c], err |-> err[c]] = Alone(c)
            /\ pc[c] \in {"verify", "derive"} =>
                  signature[c] = SigPart(c) /\ publicKey[c] = KeyPart(c))
    /\ [][InputsKept /\ OneCallPerStep]_vars

\* Two calls in progress at once on different arguments.
C8_Witness ==
    \E c1 \in Calls : \E c2 \in Calls :
        /\ pc[c1] = "derive" /\ pc[c2] = "verify"
        /\ signatureInfo[c1] # signatureInfo[c2]
        /\ payloadHash[c1] # payloadHash[c2]

\* C9: ALG_TYPE = 0x00, GAS_PENALTY = 1000, MAX_SIZE = 96 = 64 + 32, and a
\* call gets past the length check exactly when its signature_info is
\* MAX_SIZE bytes long, split into a 64-byte signature and a 32-byte key.
C9_ConstantsAndAcceptedLength ==
    /\ ALG_TYPE = 0 /\ GAS_PENALTY = 1000 /\ MAX_SIZE = 96
    /\ test_ALG_TYPE = 0 /\ test_GAS_PENALTY = 1000 /\ test_MAX_SIZE = 96
    /\ MAX_SIZE = 64 + 32
    /\ \A c \in Calls :
          /\ pc[c] \in {"split", "verify", "derive"} =>
                Len(signatureInfo[c]) = MAX_SIZE
          /\ pc[c] = "done" =>
                (KindOf(err[c]) = "InvalidLength") = (Len(signatureInfo[c]) # MAX_SIZE)
          /\ pc[c] \in {"verify", "derive"} =>
                /\ Len(signature[c]) = 64 /\ Len(publicKey[c]) = 32
                /\ signature[c] \o publicKey[c] = signatureInfo[c]

C9_Witness ==
    \E c \in Calls :
        /\ pc[c] = "verify" /\ impl[c] = "main"
        /\ Len(signatureInfo[c]) = 96
        /\ Len(signature[c]) = 64 /\ Len(publicKey[c]) = 32

\* What the other copy of Verify returns on the arguments of call c.
OtherCopy(c) ==
    IF impl[c] = "main" THEN test_Verify(signatureInfo[c], payloadHash[c])
    ELSE Verify(signatureInfo[c], payloadHash[c])

\* C10: on every input the test package's Verify and the main program's
\* Verify return the same address and an error of the same kind (none, a
\* length failure, a signature failure).
C10_TestCopyAgrees ==
    \A c \in Calls :
        pc[c] = "done" =>
            /\ address[c] = OtherCopy(c).address
            /\ KindOf(err[c]) = KindOf(OtherCopy(c).err)
            /\ KindOf(err[c]) # "other"

C10_Witness ==
    \E c \in Calls :
        /\ pc[c] = "done" /\ impl[c] = "test"
        /\ err[c] = ErrInvalidSignature
        /\ Verify(signatureInfo[c], payloadHash[c]).err = SignatureError

====
